---------------------------- MODULE Spec2Model ----------------------------
(***************************************************************************)
(* Model of the untyped lambda-calculus engine of lambda_calculus.py:      *)
(* terms (Var / Abs / App), free variables, capture-avoiding substitution, *)
(* the alpha / beta / eta rules, normalize and reduction_steps, and the    *)
(* Church-encoding builders.                                               *)
(*                                                                         *)
(* A term is a record carrying exactly the attributes of the Python        *)
(* dataclass it models, plus a tag for its class.  Names are strings, and  *)
(* the fresh names of Abs._fresh_var are built by string concatenation as  *)
(* the f-string of the source builds them.                                 *)
(***************************************************************************)
EXTENDS Integers, Sequences, FiniteSets, TLC

VARIABLES
    op,          \* the public operation being called
    in_term,     \* its term argument
    in_var,      \* its name argument (substitute: var, alpha_convert: new_var)
    in_repl,     \* substitute's replacement term
    max_steps,   \* normalize / reduction_steps: the step bound
    current,     \* normalize / reduction_steps: local `current`
    steps,       \* normalize: local counter `steps`; reduction_steps: the range index
    steps_list,  \* reduction_steps: local list `steps`
    result,      \* the value returned (or the exception raised)
    pc,          \* "call" -> ("loop" ->) "done"
    heap         \* the node objects, where object identity is modelled

vars ==
    <<op, in_term, in_var, in_repl, max_steps, current, steps, steps_list, result, pc, heap>>

---------------------------------------------------------------------------
(* Bounds of the model.                                                    *)

\* largest term (node count) substitute is called on
MaxSize == 5
\* largest replacement term (node count) given to substitute
MaxReplSize == 2
\* largest term (node count) given to beta_reduce, alpha_convert, eta_convert
MaxRuleSize == 7
\* largest enumerated term (node count) given to normalize / reduction_steps
MaxNormSize == 7
\* largest step bound given to normalize / reduction_steps
MaxSteps == 3
\* largest Church numeral used as an operand
MaxNum == 3

\* the names input terms are built from; "y_1" is the first fresh name
\* derived from "y", so that the fresh-name search has to go past it
Names == {"x", "y", "y_1"}

\* the names the larger terms given to the rewrite rules are built from
RuleNames == {"x", "y"}

---------------------------------------------------------------------------
(* Terms.                                                                  *)

Var(name) == [tag |-> "Var", name |-> name]

Abs(var, body) == [tag |-> "Abs", var |-> var, body |-> body]

App(func, arg) == [tag |-> "App", func |-> func, arg |-> arg]

\* Python's None
None == [tag |-> "None"]

\* the exception raised by reading an attribute the object does not have
AttributeError == [tag |-> "AttributeError"]

\* isinstance(term, cls)
isinstance(term, cls) == term.tag = cls

\* hasattr(term, a): the dataclass fields of the object
hasattr(term, a) == a \in (DOMAIN term) \ {"tag"}

RECURSIVE TermsOfSize(_, _)
\* all terms with exactly n nodes over the given names
TermsOfSize(names, n) ==
    IF n = 1 THEN {Var(v) : v \in names}
    ELSE {Abs(v, b) : v \in names, b \in TermsOfSize(names, n - 1)}
         \cup UNION {{App(f, a) : f \in TermsOfSize(names, i),
                                  a \in TermsOfSize(names, n - 1 - i)}
                     : i \in 1..(n - 2)}

TermsUpTo(names, n) == UNION {TermsOfSize(names, i) : i \in 1..n}

RECURSIVE free_vars(_)
free_vars(term) ==
    IF isinstance(term, "Var") THEN {term.name}
    ELSE IF isinstance(term, "Abs") THEN free_vars(term.body) \ {term.var}
    ELSE free_vars(term.func) \cup free_vars(term.arg)

RECURSIVE fresh_var_from(_, _, _)
\* the while loop of Abs._fresh_var, entered with the given counter
fresh_var_from(base, counter, avoid) ==
    IF (base \o "_" \o ToString(counter)) \in avoid
    THEN fresh_var_from(base, counter + 1, avoid)
    ELSE base \o "_" \o ToString(counter)

\* a _fresh_var that takes the first suffix without looking at avoid
fresh_var_first_suffix(self, avoid) == self.var \o "_1"

fresh_var(self, avoid) == fresh_var_from(self.var, 1, avoid)

RECURSIVE substitute_capturing(_, _, _)
\* substitute without the renaming branch: the binder is never renamed
substitute_capturing(self, var, term) ==
    IF isinstance(self, "Var") THEN (IF self.name = var THEN term ELSE self)
    ELSE IF isinstance(self, "App")
    THEN App(substitute_capturing(self.func, var, term),
             substitute_capturing(self.arg, var, term))
    ELSE IF self.var = var THEN self
    ELSE Abs(self.var, substitute_capturing(self.body, var, term))

RECURSIVE substitute_unshadowed(_, _, _)
\* substitute without the shadowing branch: a binder of var does not stop it
substitute_unshadowed(self, var, term) ==
    IF isinstance(self, "Var") THEN (IF self.name = var THEN term ELSE self)
    ELSE IF isinstance(self, "App")
    THEN App(substitute_unshadowed(self.func, var, term),
             substitute_unshadowed(self.arg, var, term))
    ELSE IF self.var \notin free_vars(term)
    THEN Abs(self.var, substitute_unshadowed(self.body, var, term))
    ELSE LET fresh == fresh_var(self, free_vars(term) \cup free_vars(self.body) \cup {var})
             renamed_body == substitute_unshadowed(self.body, self.var, Var(fresh))
         IN  Abs(fresh, substitute_unshadowed(renamed_body, var, term))

RECURSIVE substitute_stale_binder(_, _, _)
\* substitute whose renaming branch renames the body but keeps the old binder
substitute_stale_binder(self, var, term) ==
    IF isinstance(self, "Var") THEN (IF self.name = var THEN term ELSE self)
    ELSE IF isinstance(self, "App")
    THEN App(substitute_stale_binder(self.func, var, term),
             substitute_stale_binder(self.arg, var, term))
    ELSE IF self.var = var THEN self
    ELSE IF self.var \notin free_vars(term)
    THEN Abs(self.var, substitute_stale_binder(self.body, var, term))
    ELSE LET fresh == fresh_var(self, free_vars(term) \cup free_vars(self.body) \cup {var})
             renamed_body == substitute_stale_binder(self.body, self.var, Var(fresh))
         IN  Abs(self.var, substitute_stale_binder(renamed_body, var, term))

RECURSIVE substitute(_, _, _)
\* self.substitute(var, term) for the three classes
substitute(self, var, term) ==
    IF isinstance(self, "Var") THEN (IF self.name = var THEN term ELSE self)
    ELSE IF isinstance(self, "App")
    THEN App(substitute(self.func, var, term), substitute(self.arg, var, term))
    ELSE IF self.var = var THEN self
    ELSE IF self.var \notin free_vars(term)
    THEN Abs(self.var, substitute(self.body, var, term))
    ELSE LET fresh == fresh_var(self, free_vars(term) \cup free_vars(self.body) \cup {var})
             renamed_body == substitute(self.body, self.var, Var(fresh))
         IN  Abs(fresh, substitute(renamed_body, var, term))

---------------------------------------------------------------------------
(* Calls of substitute.                                                    *)

InitSubst ==
    /\ op = "substitute"
    /\ in_term \in TermsUpTo(Names, MaxSize)
    /\ in_var \in Names
    /\ in_repl \in TermsUpTo(Names, MaxReplSize)
    /\ max_steps = 0
    /\ current = None
    /\ steps = 0
    /\ steps_list = <<>>
    /\ result = None
    /\ pc = "call"
    /\ heap = <<>>

Substitute ==
    /\ pc = "call"
    /\ op = "substitute"
    /\ result' = substitute(in_term, in_var, in_repl)
    /\ pc' = "done"
    /\ UNCHANGED <<op, in_term, in_var, in_repl, max_steps, current, steps, steps_list, heap>>

NextSubst == Substitute

SpecSubst == InitSubst /\ [][NextSubst]_vars

---------------------------------------------------------------------------
(* The nameless form of a term: bound occurrences become the distance to   *)
(* their binder, free occurrences keep their name.                         *)

RECURSIVE IndexOf(_, _, _)
IndexOf(ctx, name, i) ==
    IF i > Len(ctx) THEN 0
    ELSE IF ctx[i] = name THEN i
    ELSE IndexOf(ctx, name, i + 1)

RECURSIVE Nameless(_, _)
Nameless(term, ctx) ==
    IF isinstance(term, "Var")
    THEN (IF IndexOf(ctx, term.name, 1) = 0
          THEN [tag |-> "Free", name |-> term.name]
          ELSE [tag |-> "Bound", index |-> IndexOf(ctx, term.name, 1)])
    ELSE IF isinstance(term, "Abs")
    THEN [tag |-> "Lam", body |-> Nameless(term.body, <<term.var>> \o ctx)]
    ELSE [tag |-> "Ap", func |-> Nameless(term.func, ctx), arg |-> Nameless(term.arg, ctx)]

RECURSIVE NamelessSubst(_, _, _)
\* t[x := N] on nameless terms: N has no dangling index, so it is put in as it is
NamelessSubst(d, x, dN) ==
    IF d.tag = "Free" THEN (IF d.name = x THEN dN ELSE d)
    ELSE IF d.tag = "Bound" THEN d
    ELSE IF d.tag = "Lam" THEN [tag |-> "Lam", body |-> NamelessSubst(d.body, x, dN)]
    ELSE [tag |-> "Ap", func |-> NamelessSubst(d.func, x, dN),
                        arg |-> NamelessSubst(d.arg, x, dN)]

AlphaEq(a, b) == Nameless(a, <<>>) = Nameless(b, <<>>)

\* the binders of a term (the names some Abs node binds)
RECURSIVE binders(_)
binders(term) ==
    IF isinstance(term, "Var") THEN {}
    ELSE IF isinstance(term, "Abs") THEN {term.var} \cup binders(term.body)
    ELSE binders(term.func) \cup binders(term.arg)

SubstDone == pc = "done" /\ op = "substitute"

\* C1: substitute is capture-avoiding: the result of substitute(t, x, N) has
\* the same nameless form as the textbook substitution t[x := N] carried out
\* on nameless terms, for every t, x and N.
C1_CaptureAvoiding ==
    SubstDone =>
        Nameless(result, <<>>)
            = NamelessSubst(Nameless(in_term, <<>>), in_var, Nameless(in_repl, <<>>))

\* a call where a binder of t would capture a free variable of N, x being
\* free under that binder, and the binder was renamed
C1_Witness ==
    /\ SubstDone
    /\ isinstance(in_term, "Abs")
    /\ in_term.var # in_var
    /\ in_term.var \in free_vars(in_repl)
    /\ in_var \in free_vars(in_term.body)
    /\ result.var # in_term.var
    /\ in_term.var \in free_vars(result)

\* C2: free-variable law: free_vars(substitute(t, x, N)) is
\* (free_vars(t) \ {x}) \cup free_vars(N) when x is free in t, and
\* free_vars(t) when it is not.
C2_FreeVarLaw ==
    SubstDone =>
        free_vars(result)
            = IF in_var \in free_vars(in_term)
              THEN (free_vars(in_term) \ {in_var}) \cup free_vars(in_repl)
              ELSE free_vars(in_term)

\* the example of the test suite: x -> y into (λy.x y) renames the binder
\* and leaves exactly {y} free
C2_Witness ==
    /\ SubstDone
    /\ in_term = Abs("y", App(Var("x"), Var("y")))
    /\ in_var = "x"
    /\ in_repl = Var("y")
    /\ result.var # "y"
    /\ free_vars(result) = {"y"}

---------------------------------------------------------------------------
(* The one-step rewrite rules.                                             *)

RECURSIVE beta_reduce_skip_body(_)
\* beta_reduce that does not look for a redex under an abstraction
beta_reduce_skip_body(term) ==
    IF isinstance(term, "Var") THEN None
    ELSE IF isinstance(term, "Abs") THEN None
    ELSE IF isinstance(term.func, "Abs")
    THEN substitute(term.func.body, term.func.var, term.arg)
    ELSE LET reduced_func == beta_reduce_skip_body(term.func)
         IN  IF reduced_func # None THEN App(reduced_func, term.arg)
             ELSE LET reduced_arg == beta_reduce_skip_body(term.arg)
                  IN  IF reduced_arg # None THEN App(term.func, reduced_arg)
                      ELSE None

RECURSIVE beta_reduce_inner_first(_)
\* beta_reduce that reduces inside the function part before it contracts
\* the application's own head redex
beta_reduce_inner_first(term) ==
    IF isinstance(term, "Var") THEN None
    ELSE IF isinstance(term, "Abs")
    THEN LET reduced_body == beta_reduce_inner_first(term.body)
         IN  IF reduced_body # None THEN Abs(term.var, reduced_body) ELSE None
    ELSE LET reduced_func == beta_reduce_inner_first(term.func)
         IN  IF reduced_func # None THEN App(reduced_func, term.arg)
             ELSE IF isinstance(term.func, "Abs")
             THEN substitute(term.func.body, term.func.var, term.arg)
             ELSE LET reduced_arg == beta_reduce_inner_first(term.arg)
                  IN  IF reduced_arg # None THEN App(term.func, reduced_arg)
                      ELSE None

RECURSIVE beta_reduce(_)
beta_reduce(term) ==
    IF isinstance(term, "Var") THEN None
    ELSE IF isinstance(term, "Abs")
    THEN LET reduced_body == beta_reduce(term.body)
         IN  IF reduced_body # None THEN Abs(term.var, reduced_body) ELSE None
    ELSE IF isinstance(term.func, "Abs")
    THEN substitute(term.func.body, term.func.var, term.arg)
    ELSE LET reduced_func == beta_reduce(term.func)
         IN  IF reduced_func # None THEN App(reduced_func, term.arg)
             ELSE LET reduced_arg == beta_reduce(term.arg)
                  IN  IF reduced_arg # None THEN App(term.func, reduced_arg)
                      ELSE None

\* alpha_convert that renames the binder without touching the body
alpha_convert_binder_only(term, new_var) ==
    IF ~hasattr(term, "body") \/ ~hasattr(term, "var") THEN AttributeError
    ELSE Abs(new_var, term.body)

\* alpha_convert that wraps a term that is no abstraction instead of failing
alpha_convert_coercing(term, new_var) ==
    IF ~hasattr(term, "body") \/ ~hasattr(term, "var") THEN Abs(new_var, term)
    ELSE Abs(new_var, substitute(term.body, term.var, Var(new_var)))

\* term.body and term.var are read first: on a Var or an App the read raises
alpha_convert(term, new_var) ==
    IF ~hasattr(term, "body") \/ ~hasattr(term, "var") THEN AttributeError
    ELSE Abs(new_var, substitute(term.body, term.var, Var(new_var)))

\* eta_convert without the test that the variable is not free in the function
eta_convert_unchecked(term) ==
    IF /\ isinstance(term, "Abs")
       /\ isinstance(term.body, "App")
       /\ isinstance(term.body.arg, "Var")
       /\ term.body.arg.name = term.var
    THEN term.body.func
    ELSE None

eta_convert(term) ==
    IF /\ isinstance(term, "Abs")
       /\ isinstance(term.body, "App")
       /\ isinstance(term.body.arg, "Var")
       /\ term.body.arg.name = term.var
       /\ term.var \notin free_vars(term.body.func)
    THEN term.body.func
    ELSE None

is_normal_form(term) == beta_reduce(term) = None

RECURSIVE count_redexes_below_root(_)
\* count_redexes that counts in the parts of an application only, never the
\* application itself
count_redexes_below_root(term) ==
    IF isinstance(term, "Var") THEN 0
    ELSE IF isinstance(term, "Abs") THEN count_redexes_below_root(term.body)
    ELSE count_redexes_below_root(term.func) + count_redexes_below_root(term.arg)

RECURSIVE count_redexes(_)
count_redexes(term) ==
    IF isinstance(term, "Var") THEN 0
    ELSE IF isinstance(term, "Abs") THEN count_redexes(term.body)
    ELSE count_redexes(term.func) + count_redexes(term.arg)
         + (IF isinstance(term.func, "Abs") THEN 1 ELSE 0)

RECURSIVE term_size(_)
term_size(term) ==
    IF isinstance(term, "Var") THEN 1
    ELSE IF isinstance(term, "Abs") THEN 1 + term_size(term.body)
    ELSE 1 + term_size(term.func) + term_size(term.arg)

RECURSIVE str_bare_argument(_)
\* __str__ that never parenthesizes the argument of an application
str_bare_argument(term) ==
    IF isinstance(term, "Var") THEN term.name
    ELSE IF isinstance(term, "Abs")
    THEN "(λ" \o term.var \o "." \o str_bare_argument(term.body) \o ")"
    ELSE str_bare_argument(term.func) \o " " \o str_bare_argument(term.arg)

RECURSIVE str_application_only(_)
\* __str__ that parenthesizes an argument only when it is an application
str_application_only(term) ==
    IF isinstance(term, "Var") THEN term.name
    ELSE IF isinstance(term, "Abs")
    THEN "(λ" \o term.var \o "." \o str_application_only(term.body) \o ")"
    ELSE LET func_str == str_application_only(term.func)
             arg_str == str_application_only(term.arg)
         IN  func_str \o " " \o
             (IF isinstance(term.arg, "App")
              THEN "(" \o arg_str \o ")" ELSE arg_str)

RECURSIVE str(_)
\* Var.__str__, Abs.__str__ and App.__str__
str(term) ==
    IF isinstance(term, "Var") THEN term.name
    ELSE IF isinstance(term, "Abs")
    THEN "(λ" \o term.var \o "." \o str(term.body) \o ")"
    ELSE LET func_str == str(term.func)
             arg_str == str(term.arg)
         IN  func_str \o " " \o
             (IF isinstance(term.arg, "App") \/ isinstance(term.arg, "Abs")
              THEN "(" \o arg_str \o ")" ELSE arg_str)

\* what analyze_term reports about a term
analyze_term(term) ==
    [term |-> str(term),
     size |-> term_size(term),
     free_vars |-> free_vars(term),
     redexes |-> count_redexes(term),
     normal_form |-> is_normal_form(term)]

RuleTerms == TermsUpTo(RuleNames, MaxRuleSize)

InitRule ==
    /\ op \in {"beta_reduce", "alpha_convert", "eta_convert", "analyze_term"}
    /\ in_term \in (IF op = "alpha_convert" THEN TermsUpTo(Names, MaxSize) ELSE RuleTerms)
    /\ in_var \in (IF op = "alpha_convert" THEN Names ELSE {""})
    /\ in_repl = None
    /\ max_steps = 0
    /\ current = None
    /\ steps = 0
    /\ steps_list = <<>>
    /\ result = None
    /\ pc = "call"
    /\ heap = <<>>

BetaReduce ==
    /\ pc = "call"
    /\ op = "beta_reduce"
    /\ result' = beta_reduce(in_term)
    /\ pc' = "done"
    /\ UNCHANGED <<op, in_term, in_var, in_repl, max_steps, current, steps, steps_list, heap>>

AlphaConvert ==
    /\ pc = "call"
    /\ op = "alpha_convert"
    /\ result' = alpha_convert(in_term, in_var)
    /\ pc' = "done"
    /\ UNCHANGED <<op, in_term, in_var, in_repl, max_steps, current, steps, steps_list, heap>>

EtaConvert ==
    /\ pc = "call"
    /\ op = "eta_convert"
    /\ result' = eta_convert(in_term)
    /\ pc' = "done"
    /\ UNCHANGED <<op, in_term, in_var, in_repl, max_steps, current, steps, steps_list, heap>>

AnalyzeTerm ==
    /\ pc = "call"
    /\ op = "analyze_term"
    /\ result' = analyze_term(in_term)
    /\ pc' = "done"
    /\ UNCHANGED <<op, in_term, in_var, in_repl, max_steps, current, steps, steps_list, heap>>

NextRule == BetaReduce \/ AlphaConvert \/ EtaConvert \/ AnalyzeTerm

SpecRule == InitRule /\ [][NextRule]_vars

---------------------------------------------------------------------------
(* Positions in a term, for stating which redex a step contracts.  A path  *)
(* is the sequence of attributes followed from the root.                   *)

RECURSIVE RedexPaths(_)
\* the paths of the Application nodes whose function is an Abstraction
RedexPaths(term) ==
    IF isinstance(term, "Var") THEN {}
    ELSE IF isinstance(term, "Abs")
    THEN {<<"body">> \o p : p \in RedexPaths(term.body)}
    ELSE (IF isinstance(term.func, "Abs") THEN {<<>>} ELSE {})
         \cup {<<"func">> \o p : p \in RedexPaths(term.func)}
         \cup {<<"arg">> \o p : p \in RedexPaths(term.arg)}

IsPrefix(p, q) == Len(p) <= Len(q) /\ SubSeq(q, 1, Len(p)) = p

\* p is visited before q in pre-order: a node before its children, the
\* function part before the argument part
PreOrderBefore(p, q) ==
    \/ (p # q /\ IsPrefix(p, q))
    \/ \E i \in 1..Len(p) :
          /\ i <= Len(q)
          /\ SubSeq(p, 1, i - 1) = SubSeq(q, 1, i - 1)
          /\ p[i] = "func"
          /\ q[i] = "arg"

FirstRedex(term) ==
    CHOOSE p \in RedexPaths(term) :
        \A q \in RedexPaths(term) : q = p \/ PreOrderBefore(p, q)

RECURSIVE SubtermAt(_, _)
SubtermAt(term, p) == IF p = <<>> THEN term ELSE SubtermAt(term[Head(p)], Tail(p))

RECURSIVE ReplaceAt(_, _, _)
\* term with the node at path p replaced by new, and nothing else changed
ReplaceAt(term, p, new) ==
    IF p = <<>> THEN new
    ELSE [term EXCEPT ![Head(p)] = ReplaceAt(term[Head(p)], Tail(p), new)]

\* the contractum of a redex node
Contract(redex) == substitute(redex.func.body, redex.func.var, redex.arg)

BetaDone == pc = "done" /\ op = "beta_reduce"

\* C3: beta_reduce performs exactly one leftmost-outermost step: it reports
\* no reduction when the term has no redex, and otherwise returns the term
\* with the first redex in pre-order contracted and every other part kept.
C3_LeftmostOutermost ==
    BetaDone =>
        IF RedexPaths(in_term) = {}
        THEN result = None
        ELSE result = ReplaceAt(in_term, FirstRedex(in_term),
                                Contract(SubtermAt(in_term, FirstRedex(in_term))))

\* a head redex whose body holds another redex is contracted at the head,
\* the inner redex being copied into the result
C3_Witness ==
    /\ BetaDone
    /\ isinstance(in_term, "App")
    /\ isinstance(in_term.func, "Abs")
    /\ RedexPaths(in_term.func.body) # {}
    /\ result = Contract(in_term)
    /\ RedexPaths(result) # {}

\* an application whose function part is redex-free is reduced in its argument
C3_WitnessArgument ==
    /\ BetaDone
    /\ isinstance(in_term, "App")
    /\ RedexPaths(in_term.func) = {}
    /\ ~isinstance(in_term.func, "Abs")
    /\ RedexPaths(in_term.arg) # {}
    /\ result = App(in_term.func, beta_reduce(in_term.arg))

AlphaDone == pc = "done" /\ op = "alpha_convert"

\* C6: alpha-conversion preserves free variables: for an abstraction and a
\* new name that is not free in it, the converted abstraction has the same
\* free variables, also when the new name occurs bound inside the body.
C6_AlphaPreservesFreeVars ==
    (AlphaDone /\ isinstance(in_term, "Abs") /\ in_var \notin free_vars(in_term))
        => /\ isinstance(result, "Abs")
           /\ free_vars(result) = free_vars(in_term)

\* the new name is bound inside the body and differs from the old binder,
\* which occurs free under that inner binder
C6_Witness ==
    /\ AlphaDone
    /\ isinstance(in_term, "Abs")
    /\ in_var \notin free_vars(in_term)
    /\ in_var # in_term.var
    /\ in_var \in binders(in_term.body)
    /\ in_term.var \in free_vars(in_term.body)
    /\ free_vars(in_term) # {}
    /\ result.var = in_var

\* C7: alpha_convert on a term that is not an Abstraction is rejected with
\* an error, for every such term and every new name; no term is returned.
C7_AlphaRejectsNonAbs ==
    (AlphaDone /\ ~isinstance(in_term, "Abs"))
        => result = AttributeError

\* both kinds of non-abstraction: here an Application
C7_Witness ==
    /\ AlphaDone
    /\ isinstance(in_term, "App")
    /\ result = AttributeError

RECURSIVE Subterms(_)
Subterms(term) ==
    {term} \cup
    (IF isinstance(term, "Var") THEN {}
     ELSE IF isinstance(term, "Abs") THEN Subterms(term.body)
     ELSE Subterms(term.func) \cup Subterms(term.arg))

\* the pairs (x, f) with term = Abstraction(x, Application(f, Variable(x)))
\* and x not free in f
EtaMatches(term) ==
    {xf \in ((Names \cup RuleNames) \X Subterms(term)) :
        /\ term = Abs(xf[1], App(xf[2], Var(xf[1])))
        /\ xf[1] \notin free_vars(xf[2])}

\* an eta-pattern at the root of the term or anywhere inside it
HasEtaPatternInside(term) == \E s \in Subterms(term) : EtaMatches(s) # {}

EtaDone == pc = "done" /\ op = "eta_convert"

\* C8: eta_convert(t) returns f exactly when t is
\* Abstraction(x, Application(f, Variable(x))) with x not free in f, and
\* reports not-applicable for every other term.
C8_EtaExactlyOnPattern ==
    EtaDone =>
        /\ \A xf \in EtaMatches(in_term) : result = xf[2]
        /\ (EtaMatches(in_term) = {}) => (result = None)

\* the rule applies at the root
C8_Witness ==
    /\ EtaDone
    /\ EtaMatches(in_term) # {}
    /\ result # None

\* the two refusals the claim names: x free in f, and a pattern that occurs
\* in a proper subterm only
C8_WitnessRefused ==
    /\ EtaDone
    /\ result = None
    /\ \/ in_term = Abs("x", App(Var("x"), Var("x")))
       \/ (HasEtaPatternInside(in_term) /\ EtaMatches(in_term) = {})

---------------------------------------------------------------------------
(* Named term builders.                                                    *)

RECURSIVE church_numeral_body(_)
\* the loop of church_numeral: n applications of f around x
church_numeral_body(n) ==
    IF n = 0 THEN Var("x") ELSE App(Var("f"), church_numeral_body(n - 1))

church_numeral(n) == Abs("f", Abs("x", church_numeral_body(n)))

church_true == Abs("t", Abs("f", Var("t")))

church_false == Abs("t", Abs("f", Var("f")))

church_and == Abs("p", Abs("q", App(App(Var("p"), Var("q")), Var("p"))))

church_or == Abs("p", Abs("q", App(App(Var("p"), Var("p")), Var("q"))))

church_not == Abs("p", Abs("t", Abs("f", App(App(Var("p"), Var("f")), Var("t")))))

church_succ ==
    Abs("n", Abs("f", Abs("x",
        App(Var("f"), App(App(Var("n"), Var("f")), Var("x"))))))

church_add ==
    Abs("m", Abs("n", Abs("f", Abs("x",
        App(App(Var("m"), Var("f")),
            App(App(Var("n"), Var("f")), Var("x")))))))

church_mult ==
    Abs("m", Abs("n", Abs("f",
        App(Var("m"), App(Var("n"), Var("f"))))))

Y_combinator ==
    LET inner == Abs("x", App(Var("f"), App(Var("x"), Var("x"))))
    IN  Abs("f", App(inner, inner))

omega ==
    LET omega_term == Abs("x", App(Var("x"), Var("x")))
    IN  App(omega_term, omega_term)

\* the step bound normalize and reduction_steps take by default
DefaultMaxSteps == 1000

---------------------------------------------------------------------------
(* normalize and reduction_steps, one loop iteration per step.             *)

\* a while loop that runs once more than the bound allows
normalize_loop_guard_inclusive(s, k) == s <= k

\* while steps < max_steps
normalize_loop_guard(s, k) == s < k

\* a range that yields one index more than the bound
range_guard_inclusive(i, k) == i <= k

\* for _ in range(max_steps): the index i is still in the range
range_guard(i, k) == i < k

NormTerms == TermsUpTo(RuleNames, MaxNormSize) \cup {omega, Y_combinator}

InitNorm ==
    /\ op \in {"normalize", "reduction_steps"}
    /\ in_term \in NormTerms
    /\ in_var = ""
    /\ in_repl = None
    /\ max_steps \in 0..MaxSteps
    /\ current = None
    /\ steps = 0
    /\ steps_list = <<>>
    /\ result = None
    /\ pc = "call"
    /\ heap = <<>>

\* steps = 0; current = term
NormalizeCall ==
    /\ pc = "call"
    /\ op = "normalize"
    /\ steps' = 0
    /\ current' = in_term
    /\ pc' = "loop"
    /\ UNCHANGED <<op, in_term, in_var, in_repl, max_steps, steps_list, result, heap>>

\* one iteration of the while loop that does not break
NormalizeStep ==
    /\ pc = "loop"
    /\ op = "normalize"
    /\ normalize_loop_guard(steps, max_steps)
    /\ LET reduced == beta_reduce(current)
       IN  /\ reduced # None
           /\ current' = reduced
           /\ steps' = steps + 1
    /\ UNCHANGED <<op, in_term, in_var, in_repl, max_steps, steps_list, result, pc, heap>>

\* the loop ends, by its condition or by break, and current is returned
NormalizeReturn ==
    /\ pc = "loop"
    /\ op = "normalize"
    /\ (normalize_loop_guard(steps, max_steps) => beta_reduce(current) = None)
    /\ result' = current
    /\ pc' = "done"
    /\ UNCHANGED <<op, in_term, in_var, in_repl, max_steps, current, steps, steps_list, heap>>

\* steps = [term]; current = term
ReductionStepsCall ==
    /\ pc = "call"
    /\ op = "reduction_steps"
    /\ steps_list' = <<in_term>>
    /\ current' = in_term
    /\ steps' = 0
    /\ pc' = "loop"
    /\ UNCHANGED <<op, in_term, in_var, in_repl, max_steps, result, heap>>

\* one iteration of the for loop that does not break
ReductionStepsStep ==
    /\ pc = "loop"
    /\ op = "reduction_steps"
    /\ range_guard(steps, max_steps)
    /\ LET reduced == beta_reduce(current)
       IN  /\ reduced # None
           /\ steps_list' = Append(steps_list, reduced)
           /\ current' = reduced
    /\ steps' = steps + 1
    /\ UNCHANGED <<op, in_term, in_var, in_repl, max_steps, result, pc, heap>>

\* the range is exhausted or the loop breaks, and the list is returned
ReductionStepsReturn ==
    /\ pc = "loop"
    /\ op = "reduction_steps"
    /\ (range_guard(steps, max_steps) => beta_reduce(current) = None)
    /\ result' = steps_list
    /\ pc' = "done"
    /\ UNCHANGED <<op, in_term, in_var, in_repl, max_steps, current, steps, steps_list, heap>>

NextNorm ==
    \/ NormalizeCall
    \/ NormalizeStep
    \/ NormalizeReturn
    \/ ReductionStepsCall
    \/ ReductionStepsStep
    \/ ReductionStepsReturn

SpecNorm == InitNorm /\ [][NextNorm]_vars

RECURSIVE StepsUntilNormal(_, _)
\* min(k, n), n being the number of steps after which beta_reduce first
\* reports no reduction
StepsUntilNormal(term, k) ==
    IF k = 0 \/ is_normal_form(term) THEN 0
    ELSE 1 + StepsUntilNormal(beta_reduce(term), k - 1)

RECURSIVE NthReduct(_, _)
\* the term after i successive beta_reduce steps
NthReduct(term, i) == IF i = 0 THEN term ELSE beta_reduce(NthReduct(term, i - 1))

NormalizeDone == pc = "done" /\ op = "normalize"

\* C4: normalize(t, k) terminates and returns the term reached after exactly
\* min(k, n) beta_reduce steps, n being the number of steps after which
\* beta_reduce first reports no reduction; so the result is in normal form or
\* is the k-th reduct, and it is t itself when t is in normal form or k = 0.
C4_NormalizeBounded ==
    /\ (op = "normalize" /\ pc # "done") => (steps <= max_steps /\ ENABLED NextNorm)
    /\ NormalizeDone =>
        /\ result = NthReduct(in_term, StepsUntilNormal(in_term, max_steps))
        /\ (is_normal_form(result) \/ result = NthReduct(in_term, max_steps))
        /\ (is_normal_form(in_term) \/ max_steps = 0) => (result = in_term)

\* the bound is exhausted on a term that changes at every step and is still
\* reducible when it is returned
C4_Witness ==
    /\ NormalizeDone
    /\ max_steps >= 2
    /\ steps = max_steps
    /\ ~is_normal_form(result)
    /\ result # in_term

\* the loop stops early, on a normal form reached before the bound
C4_WitnessEarly ==
    /\ NormalizeDone
    /\ 0 < steps
    /\ steps < max_steps
    /\ is_normal_form(result)

ReductionStepsDone == pc = "done" /\ op = "reduction_steps"

\* C5: reduction_steps(t, k) returns a sequence s with s[0] = t, every
\* s[i+1] = beta_reduce(s[i]), at most k + 1 entries, and fewer than k + 1
\* entries only if the last entry is in normal form.
C5_ReductionTrace ==
    ReductionStepsDone =>
        /\ Len(result) >= 1
        /\ result[1] = in_term
        /\ \A i \in 1..Len(result) : result[i] # None
        /\ \A i \in 1..(Len(result) - 1) : result[i + 1] = beta_reduce(result[i])
        /\ Len(result) <= max_steps + 1
        /\ (Len(result) < max_steps + 1) => is_normal_form(result[Len(result)])

\* a trace cut by the bound, its last entry still reducible
C5_Witness ==
    /\ ReductionStepsDone
    /\ max_steps >= 2
    /\ Len(result) = max_steps + 1
    /\ ~is_normal_form(result[Len(result)])
    /\ result[2] # result[1]

\* a trace that ends early on a normal form
C5_WitnessEarly ==
    /\ ReductionStepsDone
    /\ 1 < Len(result)
    /\ Len(result) < max_steps + 1
    /\ is_normal_form(result[Len(result)])

---------------------------------------------------------------------------
(* normalize, with its default bound, on the Church encodings.             *)

ChurchNums == 0..MaxNum

ChurchBools == {church_true, church_false}

\* the Church boolean of a truth value
church_bool(b) == IF b THEN church_true ELSE church_false

ChurchArithmeticCalls ==
    {App(church_succ, church_numeral(n)) : n \in ChurchNums}
    \cup {App(App(church_add, church_numeral(m)), church_numeral(n))
          : m \in ChurchNums, n \in ChurchNums}
    \cup {App(App(church_mult, church_numeral(m)), church_numeral(n))
          : m \in ChurchNums, n \in ChurchNums}

ChurchLogicCalls ==
    {App(church_not, a) : a \in ChurchBools}
    \cup {App(App(church_and, a), b) : a \in ChurchBools, b \in ChurchBools}
    \cup {App(App(church_or, a), b) : a \in ChurchBools, b \in ChurchBools}

InitChurch ==
    /\ op = "normalize"
    /\ in_term \in ChurchArithmeticCalls \cup ChurchLogicCalls
    /\ in_var = ""
    /\ in_repl = None
    /\ max_steps = DefaultMaxSteps
    /\ current = None
    /\ steps = 0
    /\ steps_list = <<>>
    /\ result = None
    /\ pc = "call"
    /\ heap = <<>>

NextChurch == NormalizeCall \/ NormalizeStep \/ NormalizeReturn

SpecChurch == InitChurch /\ [][NextChurch]_vars

\* C9: Church arithmetic is exact: for all m, n in the range,
\* normalize(succ n) = numeral(n + 1), normalize(add m n) = numeral(m + n)
\* and normalize(mult m n) = numeral(m * n), as structural equality with the
\* tree church_numeral builds.
C9_ChurchArithmetic ==
    NormalizeDone =>
        \A m \in ChurchNums, n \in ChurchNums :
            /\ (in_term = App(church_succ, church_numeral(n)))
                   => (result = church_numeral(n + 1))
            /\ (in_term = App(App(church_add, church_numeral(m)), church_numeral(n)))
                   => (result = church_numeral(m + n))
            /\ (in_term = App(App(church_mult, church_numeral(m)), church_numeral(n)))
                   => (result = church_numeral(m * n))

\* the product of the test suite: 2 * 3 = 6
C9_Witness ==
    /\ NormalizeDone
    /\ in_term = App(App(church_mult, church_numeral(2)), church_numeral(3))
    /\ result = church_numeral(6)

\* the sum and the successor of the test suite
C9_WitnessAddSucc ==
    /\ NormalizeDone
    /\ \/ (in_term = App(App(church_add, church_numeral(1)), church_numeral(2))
              /\ result = church_numeral(3))
       \/ (in_term = App(church_succ, church_numeral(2)) /\ result = church_numeral(3))

\* C10: Church logic matches the classical truth tables: normalize(and a b),
\* normalize(or a b) and normalize(not a) are the Church booleans of
\* a AND b, a OR b and NOT a, structurally equal to church_true / church_false.
C10_ChurchLogic ==
    NormalizeDone =>
        \A a \in BOOLEAN, b \in BOOLEAN :
            /\ (in_term = App(App(church_and, church_bool(a)), church_bool(b)))
                   => (result = church_bool(a /\ b))
            /\ (in_term = App(App(church_or, church_bool(a)), church_bool(b)))
                   => (result = church_bool(a \/ b))
            /\ (in_term = App(church_not, church_bool(a)))
                   => (result = church_bool(~a))

\* NOT true has been normalized to false
C10_Witness ==
    /\ NormalizeDone
    /\ in_term = App(church_not, church_true)
    /\ result = church_false

\* reducing NOT passes through the binder-renaming case of substitute: the
\* renamed binder f_1 is in the term being normalized
C10_WitnessRenaming ==
    /\ op = "normalize"
    /\ pc = "loop"
    /\ in_term = App(church_not, church_true)
    /\ "f_1" \in binders(current)

---------------------------------------------------------------------------
(* Further properties of substitute, the rules and the loops.              *)

\* C11: non-termination containment for omega = (λx.x x)(λx.x x): it has
\* one redex, is not in normal form, reduces to itself, and for every k
\* reduction_steps(omega, k) returns exactly k + 1 entries, each equal to
\* omega, and normalize(omega, k) returns omega.
C11_OmegaContained ==
    (in_term = omega) =>
        /\ count_redexes(omega) = 1
        /\ ~is_normal_form(omega)
        /\ beta_reduce(omega) = omega
        /\ ReductionStepsDone =>
               /\ Len(result) = max_steps + 1
               /\ \A i \in 1..Len(result) : result[i] = omega
        /\ NormalizeDone => (result = omega)

\* the trace of the example: omega with bound 3 gives 4 entries
C11_Witness ==
    /\ ReductionStepsDone
    /\ in_term = omega
    /\ max_steps = 3
    /\ Len(result) = 4
    /\ result[4] = omega

AnalyzeDone == pc = "done" /\ op = "analyze_term"

\* C12: normal form means no redex: is_normal_form(t) holds exactly when
\* count_redexes(t) = 0, the count being the number of Application nodes
\* anywhere in t whose function is an Abstraction.
C12_NormalIffNoRedex ==
    AnalyzeDone =>
        /\ result.normal_form = (result.redexes = 0)
        /\ result.redexes = Cardinality(RedexPaths(in_term))

\* a term whose only redexes lie under an abstraction inside an argument
C12_Witness ==
    /\ AnalyzeDone
    /\ isinstance(in_term, "App")
    /\ isinstance(in_term.func, "Var")
    /\ isinstance(in_term.arg, "Abs")
    /\ result.redexes >= 1
    /\ result.normal_form = FALSE

\* a term without any redex is reported normal
C12_WitnessNormal ==
    /\ AnalyzeDone
    /\ isinstance(in_term, "App")
    /\ result.redexes = 0
    /\ result.normal_form = TRUE

\* C13 as stated: for x not free in t, substitute(t, x, N) is structurally
\* equal to t.
C13_IdentityOnNonOccurring ==
    (SubstDone /\ in_var \notin free_vars(in_term)) => (result = in_term)

\* C13, amended: for x not free in t, substitute(t, x, N) is alpha-equivalent
\* to t, and it is structurally equal to t when no binder of t is free in N.
C13_AlphaIdentityOnNonOccurring ==
    (SubstDone /\ in_var \notin free_vars(in_term)) =>
        /\ AlphaEq(result, in_term)
        /\ (binders(in_term) \cap free_vars(in_repl) = {}) => (result = in_term)

\* x does not occur in t at all, yet a binder of t that is free in N is renamed
C13_Witness ==
    /\ SubstDone
    /\ in_var \notin free_vars(in_term)
    /\ in_var \notin binders(in_term)
    /\ result # in_term
    /\ AlphaEq(result, in_term)

\* the set _fresh_var is given by the renaming branch
AvoidSet == free_vars(in_repl) \cup free_vars(in_term.body) \cup {in_var}

\* base_k, the k-th candidate of the fresh-name search
Suffixed(base, k) == base \o "_" \o ToString(k)

RenamingCall ==
    /\ SubstDone
    /\ isinstance(in_term, "Abs")
    /\ in_term.var # in_var
    /\ in_term.var \in free_vars(in_repl)

\* C15: fresh-name policy: substitute(Abstraction(b, body), x, N) with
\* b # x and b free in N returns an Abstraction whose binder is b_k for the
\* smallest k >= 1 with b_k outside free_vars(N), free_vars(body) and {x};
\* the binder differs from b and is not free in N.
C15_SmallestFreshSuffix ==
    RenamingCall =>
        /\ isinstance(result, "Abs")
        /\ \E k \in 1..(Cardinality(AvoidSet) + 1) :
              /\ result.var = Suffixed(in_term.var, k)
              /\ result.var \notin AvoidSet
              /\ \A j \in 1..(k - 1) : Suffixed(in_term.var, j) \in AvoidSet
        /\ result.var # in_term.var
        /\ result.var \notin free_vars(in_repl)

\* the first candidate y_1 is taken, so the search goes on to y_2
C15_Witness ==
    /\ RenamingCall
    /\ in_term.var = "y"
    /\ "y_1" \in AvoidSet
    /\ result.var = "y_2"

LoopRunning == pc \in {"loop", "done"}

\* C17: beta-reduction never introduces free variables: a term returned by
\* beta_reduce has its free variables among those of the term reduced, so
\* every entry of reduction_steps(t, k) and the result of normalize(t, k)
\* have their free variables among those of t.
C17_NoNewFreeVars ==
    /\ (LoopRunning /\ beta_reduce(current) # None)
           => (free_vars(beta_reduce(current)) \subseteq free_vars(current))
    /\ LoopRunning => (free_vars(current) \subseteq free_vars(in_term))
    /\ (LoopRunning /\ op = "reduction_steps")
           => \A i \in 1..Len(steps_list) :
                  free_vars(steps_list[i]) \subseteq free_vars(in_term)
    /\ NormalizeDone => (free_vars(result) \subseteq free_vars(in_term))
    /\ ReductionStepsDone
           => \A i \in 1..Len(result) : free_vars(result[i]) \subseteq free_vars(in_term)

\* a step whose substitution had to rename a binder: the reduct binds a name
\* that is no name of the input, and the input has a free variable
C17_Witness ==
    /\ ReductionStepsDone
    /\ Len(result) >= 2
    /\ free_vars(in_term) # {}
    /\ ~(binders(result[2]) \subseteq RuleNames)
    /\ free_vars(result[2]) \subseteq free_vars(in_term)

\* a closed term stays closed over several steps
C17_WitnessClosed ==
    /\ NormalizeDone
    /\ steps >= 2
    /\ free_vars(in_term) = {}
    /\ free_vars(result) = {}

---------------------------------------------------------------------------
(* Rendering, and the comparison of two terms by their rendering that the  *)
(* test suite makes: assertEqual(str(a), str(b)).                          *)

\* largest enumerated term (node count) that is rendered
MaxRenderSize == 5

RenderTerms ==
    TermsUpTo(RuleNames, MaxRenderSize) \cup {church_numeral(n) : n \in ChurchNums}

InitRender ==
    /\ op = "str"
    /\ in_term \in RenderTerms
    /\ in_var = ""
    /\ in_repl \in RenderTerms
    /\ max_steps = 0
    /\ current = None
    /\ steps = 0
    /\ steps_list = <<>>
    /\ result = None
    /\ pc = "call"
    /\ heap = <<>>

\* str(a), str(b) and their comparison
CompareRendered ==
    /\ pc = "call"
    /\ op = "str"
    /\ result' = [first |-> str(in_term),
                  second |-> str(in_repl),
                  equal |-> (str(in_term) = str(in_repl))]
    /\ pc' = "done"
    /\ UNCHANGED <<op, in_term, in_var, in_repl, max_steps, current, steps, steps_list, heap>>

NextRender == CompareRendered

SpecRender == InitRender /\ [][NextRender]_vars

RenderDone == pc = "done" /\ op = "str"

\* the argument of an application, wrapped in one pair of parentheses
\* exactly when it is an Application or an Abstraction
RenderedArgument(arg) ==
    IF isinstance(arg, "App") \/ isinstance(arg, "Abs")
    THEN "(" \o str(arg) \o ")"
    ELSE str(arg)

\* C14: display format: a Variable renders as its bare name, an Abstraction
\* as (λ<var>.<body>), an Application as <function> <argument>, the argument
\* in one extra pair of parentheses if and only if it is an Application or
\* an Abstraction and the function never in extra parentheses; the numerals
\* render as the strings the test suite expects.
C14_DisplayFormat ==
    RenderDone =>
        /\ isinstance(in_term, "Var") => (result.first = in_term.name)
        /\ isinstance(in_term, "Abs")
               => (result.first = "(λ" \o in_term.var \o "." \o str(in_term.body) \o ")")
        /\ isinstance(in_term, "App")
               => (result.first = str(in_term.func) \o " " \o RenderedArgument(in_term.arg))
        /\ (in_term = church_numeral(0)) => (result.first = "(λf.(λx.x))")
        /\ (in_term = church_numeral(1)) => (result.first = "(λf.(λx.f x))")
        /\ (in_term = church_numeral(2)) => (result.first = "(λf.(λx.f (f x)))")
        /\ (in_term = church_numeral(3)) => (result.first = "(λf.(λx.f (f (f x))))")
        /\ (in_term = App(Abs("x", Var("x")), Abs("y", Var("y"))))
               => (result.first = "(λx.x) ((λy.y))")
        /\ (in_term = App(App(Var("x"), Var("y")), App(Var("y"), Var("x"))))
               => (result.first = "x y (y x)")

\* an application whose function and argument are both abstractions: the
\* argument gets the extra pair, the function does not
C14_Witness ==
    /\ RenderDone
    /\ in_term = App(Abs("x", Var("x")), Abs("y", Var("y")))
    /\ result.first = "(λx.x) ((λy.y))"

\* the numeral 2 of the test suite
C14_WitnessNumeral ==
    /\ RenderDone
    /\ in_term = church_numeral(2)
    /\ result.first = "(λf.(λx.f (f x)))"

\* C18: the rendering is injective: two terms with the same rendering are
\* structurally equal, so comparing by str agrees with structural equality.
C18_RenderingInjective ==
    RenderDone => (result.equal = (in_term = in_repl))

\* the two ways of nesting three applications render differently
C18_Witness ==
    /\ RenderDone
    /\ in_term = App(App(Var("x"), Var("y")), Var("x"))
    /\ in_repl = App(Var("x"), App(Var("y"), Var("x")))
    /\ result.first = "x y x"
    /\ result.second = "x (y x)"
    /\ ~result.equal

\* two equal terms compare equal by their rendering
C18_WitnessEqual ==
    /\ RenderDone
    /\ isinstance(in_term, "App")
    /\ in_term = in_repl
    /\ result.equal

---------------------------------------------------------------------------
(* The engine at the level of node objects.  heap[r] is the object with    *)
(* reference r; the body, func and arg attributes of an object hold        *)
(* references.  A constructor call appends a new object; nothing in the    *)
(* engine assigns to an attribute of an existing object.                   *)

\* largest enumerated term (node count) built as objects
MaxObjSize == 5

\* the reference that stands for None
NoneRef == 0

\* a constructor call: the new object and the heap that holds it
new(h, node) == [heap |-> Append(h, node), ref |-> Len(h) + 1]

RECURSIVE build(_, _)
\* nested constructor calls that build the term: one new object per node
build(h, term) ==
    IF isinstance(term, "Var") THEN new(h, term)
    ELSE IF isinstance(term, "Abs")
    THEN LET b == build(h, term.body)
         IN  new(b.heap, Abs(term.var, b.ref))
    ELSE LET f == build(h, term.func)
             a == build(f.heap, term.arg)
         IN  new(a.heap, App(f.ref, a.ref))

\* Y_combinator(): the one object inner is both function and argument
obj_Y_combinator(h) ==
    LET inner == build(h, Y_combinator.body.func)
        app == new(inner.heap, App(inner.ref, inner.ref))
    IN  new(app.heap, Abs("f", app.ref))

\* the omega of the examples: the one object omega_term is used twice
obj_omega(h) ==
    LET omega_term == build(h, omega.func)
    IN  new(omega_term.heap, App(omega_term.ref, omega_term.ref))

RECURSIVE obj_free_vars(_, _)
obj_free_vars(h, r) ==
    IF isinstance(h[r], "Var") THEN {h[r].name}
    ELSE IF isinstance(h[r], "Abs") THEN obj_free_vars(h, h[r].body) \ {h[r].var}
    ELSE obj_free_vars(h, h[r].func) \cup obj_free_vars(h, h[r].arg)

RECURSIVE obj_substitute_in_place(_, _, _, _)
\* substitute whose App case assigns the substituted parts to self.func and
\* self.arg and returns self, instead of building a new App
obj_substitute_in_place(h, self, var, term) ==
    IF isinstance(h[self], "Var")
    THEN [heap |-> h, ref |-> IF h[self].name = var THEN term ELSE self]
    ELSE IF isinstance(h[self], "App")
    THEN LET f == obj_substitute_in_place(h, h[self].func, var, term)
             a == obj_substitute_in_place(f.heap, h[self].arg, var, term)
         IN  [heap |-> [a.heap EXCEPT ![self] = App(f.ref, a.ref)], ref |-> self]
    ELSE IF h[self].var = var THEN [heap |-> h, ref |-> self]
    ELSE IF h[self].var \notin obj_free_vars(h, term)
    THEN LET b == obj_substitute_in_place(h, h[self].body, var, term)
         IN  new(b.heap, Abs(h[self].var, b.ref))
    ELSE LET fresh == fresh_var(h[self], obj_free_vars(h, term)
                                         \cup obj_free_vars(h, h[self].body) \cup {var})
             v == new(h, Var(fresh))
             renamed_body == obj_substitute_in_place(v.heap, h[self].body, h[self].var, v.ref)
             b == obj_substitute_in_place(renamed_body.heap, renamed_body.ref, var, term)
         IN  new(b.heap, Abs(fresh, b.ref))

RECURSIVE obj_substitute(_, _, _, _)
\* self.substitute(var, term) on objects: Var returns the object term or
\* self; Abs and App build new objects around the substituted parts
obj_substitute(h, self, var, term) ==
    IF isinstance(h[self], "Var")
    THEN [heap |-> h, ref |-> IF h[self].name = var THEN term ELSE self]
    ELSE IF isinstance(h[self], "App")
    THEN LET f == obj_substitute(h, h[self].func, var, term)
             a == obj_substitute(f.heap, h[self].arg, var, term)
         IN  new(a.heap, App(f.ref, a.ref))
    ELSE IF h[self].var = var THEN [heap |-> h, ref |-> self]
    ELSE IF h[self].var \notin obj_free_vars(h, term)
    THEN LET b == obj_substitute(h, h[self].body, var, term)
         IN  new(b.heap, Abs(h[self].var, b.ref))
    ELSE LET fresh == fresh_var(h[self], obj_free_vars(h, term)
                                         \cup obj_free_vars(h, h[self].body) \cup {var})
             v == new(h, Var(fresh))
             renamed_body == obj_substitute(v.heap, h[self].body, h[self].var, v.ref)
             b == obj_substitute(renamed_body.heap, renamed_body.ref, var, term)
         IN  new(b.heap, Abs(fresh, b.ref))

RECURSIVE obj_beta_reduce(_, _)
obj_beta_reduce(h, term) ==
    IF isinstance(h[term], "Var") THEN [heap |-> h, ref |-> NoneRef]
    ELSE IF isinstance(h[term], "Abs")
    THEN LET reduced_body == obj_beta_reduce(h, h[term].body)
         IN  IF reduced_body.ref # NoneRef
             THEN new(reduced_body.heap, Abs(h[term].var, reduced_body.ref))
             ELSE [heap |-> h, ref |-> NoneRef]
    ELSE IF isinstance(h[h[term].func], "Abs")
    THEN obj_substitute(h, h[h[term].func].body, h[h[term].func].var, h[term].arg)
    ELSE LET reduced_func == obj_beta_reduce(h, h[term].func)
         IN  IF reduced_func.ref # NoneRef
             THEN new(reduced_func.heap, App(reduced_func.ref, h[term].arg))
             ELSE LET reduced_arg == obj_beta_reduce(h, h[term].arg)
                  IN  IF reduced_arg.ref # NoneRef
                      THEN new(reduced_arg.heap, App(h[term].func, reduced_arg.ref))
                      ELSE [heap |-> h, ref |-> NoneRef]

\* the enumerated terms the callers build node by node
ObjTerms == TermsUpTo(RuleNames, MaxObjSize)

InitObj ==
    /\ op \in {"substitute", "beta_reduce", "normalize", "reduction_steps"}
    /\ in_term = NoneRef
    /\ in_var = ""
    /\ in_repl = NoneRef
    /\ max_steps \in (IF op \in {"normalize", "reduction_steps"} THEN 0..MaxSteps ELSE {0})
    /\ current = NoneRef
    /\ steps = 0
    /\ steps_list = <<>>
    /\ result = NoneRef
    /\ pc = "build"
    /\ heap = <<>>

\* the caller builds the term and the replacement of a substitute call
ObjBuildSubstituteArguments ==
    /\ pc = "build"
    /\ op = "substitute"
    /\ \E t \in ObjTerms, n \in TermsUpTo(RuleNames, MaxReplSize), v \in RuleNames :
          LET self == build(heap, t)
              term == build(self.heap, n)
          IN  /\ heap' = term.heap
              /\ in_term' = self.ref
              /\ in_repl' = term.ref
              /\ in_var' = v
    /\ pc' = "built"
    /\ UNCHANGED <<op, max_steps, current, steps, steps_list, result>>

\* the caller builds the term to reduce: node by node, or by a named builder
ObjBuildTerm ==
    /\ pc = "build"
    /\ op # "substitute"
    /\ \E built \in {build(heap, t) : t \in ObjTerms}
                    \cup {obj_Y_combinator(heap), obj_omega(heap)} :
          /\ heap' = built.heap
          /\ in_term' = built.ref
    /\ pc' = "built"
    /\ UNCHANGED <<op, in_var, in_repl, max_steps, current, steps, steps_list, result>>

ObjSubstitute ==
    /\ pc = "built"
    /\ op = "substitute"
    /\ LET r == obj_substitute(heap, in_term, in_var, in_repl)
       IN  /\ heap' = r.heap
           /\ result' = r.ref
    /\ pc' = "returned"
    /\ UNCHANGED <<op, in_term, in_var, in_repl, max_steps, current, steps, steps_list>>

ObjBetaReduce ==
    /\ pc = "built"
    /\ op = "beta_reduce"
    /\ LET r == obj_beta_reduce(heap, in_term)
       IN  /\ heap' = r.heap
           /\ result' = r.ref
    /\ pc' = "returned"
    /\ UNCHANGED <<op, in_term, in_var, in_repl, max_steps, current, steps, steps_list>>

\* normalize: steps = 0; current = term -- reduction_steps: steps = [term];
\* current = term
ObjLoopCall ==
    /\ pc = "built"
    /\ op \in {"normalize", "reduction_steps"}
    /\ steps' = 0
    /\ current' = in_term
    /\ steps_list' = IF op = "reduction_steps" THEN <<in_term>> ELSE <<>>
    /\ pc' = "looping"
    /\ UNCHANGED <<op, in_term, in_var, in_repl, max_steps, result, heap>>

\* one iteration, of either loop, that does not break
ObjLoopStep ==
    /\ pc = "looping"
    /\ IF op = "normalize" THEN normalize_loop_guard(steps, max_steps)
                           ELSE range_guard(steps, max_steps)
    /\ LET reduced == obj_beta_reduce(heap, current)
       IN  /\ reduced.ref # NoneRef
           /\ heap' = reduced.heap
           /\ current' = reduced.ref
           /\ steps_list' = IF op = "reduction_steps"
                            THEN Append(steps_list, reduced.ref) ELSE steps_list
    /\ steps' = steps + 1
    /\ UNCHANGED <<op, in_term, in_var, in_repl, max_steps, result, pc>>

\* the loop ends and normalize returns current, reduction_steps its list
ObjLoopReturn ==
    /\ pc = "looping"
    /\ (IF op = "normalize" THEN normalize_loop_guard(steps, max_steps)
                            ELSE range_guard(steps, max_steps))
           => (obj_beta_reduce(heap, current).ref = NoneRef)
    /\ result' = IF op = "normalize" THEN current ELSE steps_list
    /\ pc' = "returned"
    /\ UNCHANGED <<op, in_term, in_var, in_repl, max_steps, current, steps, steps_list, heap>>

NextObj ==
    \/ ObjBuildSubstituteArguments
    \/ ObjBuildTerm
    \/ ObjSubstitute
    \/ ObjBetaReduce
    \/ ObjLoopCall
    \/ ObjLoopStep
    \/ ObjLoopReturn

SpecObj == InitObj /\ [][NextObj]_vars

\* the references an object holds
Children(h, r) ==
    IF isinstance(h[r], "Var") THEN {}
    ELSE IF isinstance(h[r], "Abs") THEN {h[r].body}
    ELSE {h[r].func, h[r].arg}

RECURSIVE ReachWithin(_, _, _)
\* the objects reached from the set S by following at most n references
ReachWithin(h, S, n) ==
    IF n = 0 THEN S
    ELSE ReachWithin(h, S \cup UNION {Children(h, r) : r \in S}, n - 1)

Reachable(h, r) == ReachWithin(h, {r}, Len(h))

\* no object is reached from one of its own attributes
Acyclic(h, r) ==
    \A n \in Reachable(h, r) : n \notin ReachWithin(h, Children(h, n), Len(h))

RECURSIVE PathCount(_, _)
\* the number of paths from r downwards (of an acyclic term): the node count
\* of its unfolding
PathCount(h, r) ==
    IF isinstance(h[r], "Var") THEN 1
    ELSE IF isinstance(h[r], "Abs") THEN 1 + PathCount(h, h[r].body)
    ELSE 1 + PathCount(h, h[r].func) + PathCount(h, h[r].arg)

\* acyclic, and no object is reached by two different paths
IsTree(h, r) == Acyclic(h, r) /\ PathCount(h, r) = Cardinality(Reachable(h, r))

RECURSIVE Value(_, _)
\* the term an acyclic object graph stands for
Value(h, r) ==
    IF isinstance(h[r], "Var") THEN h[r]
    ELSE IF isinstance(h[r], "Abs") THEN Abs(h[r].var, Value(h, h[r].body))
    ELSE App(Value(h, h[r].func), Value(h, h[r].arg))

ValueOrNone(h, r) == IF r = NoneRef THEN None ELSE Value(h, r)

\* the terms built by the caller so far
BuiltTerms ==
    IF pc = "build" THEN {}
    ELSE {in_term} \cup (IF op = "substitute" THEN {in_repl} ELSE {})

\* the terms returned so far by substitute, beta_reduce (also inside the
\* loops), normalize and reduction_steps
ReturnedTerms ==
    (IF pc \in {"looping", "returned"} /\ op \in {"normalize", "reduction_steps"}
     THEN {current} \cup {steps_list[i] : i \in 1..Len(steps_list)} ELSE {})
    \cup (IF pc = "returned" /\ op # "reduction_steps" THEN {result} \ {NoneRef} ELSE {})
    \cup (IF pc = "returned" /\ op = "reduction_steps"
          THEN {result[i] : i \in 1..Len(result)} ELSE {})

\* the object-level functions compute the terms the value-level ones do
ObjectsAgreeWithValues ==
    /\ (pc = "returned" /\ op = "substitute")
           => Value(heap, result)
                  = substitute(Value(heap, in_term), in_var, Value(heap, in_repl))
    /\ (pc = "returned" /\ op = "beta_reduce")
           => ValueOrNone(heap, result) = beta_reduce(Value(heap, in_term))
    /\ (pc = "looping")
           => Value(heap, current) = NthReduct(Value(heap, in_term), steps)

\* C16 as stated: every term built by the named builders or returned by
\* substitute, beta_reduce, normalize and reduction_steps is a finite tree of
\* node objects: no object is reachable by two different paths, and there
\* are no cycles.
C16_FiniteTree ==
    \A r \in BuiltTerms \cup ReturnedTerms : IsTree(heap, r)

\* C16, amended: every such term is a finite object graph without cycles;
\* an object may be reachable by two different paths.
C16_FiniteAcyclic ==
    \A r \in BuiltTerms \cup ReturnedTerms :
        /\ Reachable(heap, r) \subseteq 1..Len(heap)
        /\ Acyclic(heap, r)

\* substitute, given two trees, returns a term in which the replacement
\* object is reachable by two paths
C16_Witness ==
    /\ pc = "returned"
    /\ op = "substitute"
    /\ IsTree(heap, in_term)
    /\ IsTree(heap, in_repl)
    /\ Acyclic(heap, result)
    /\ ~IsTree(heap, result)
    /\ in_repl \in Reachable(heap, result)

\* omega of the examples is reduced: its one omega_term object is used twice
\* in the term built and in every term returned
C16_WitnessOmega ==
    /\ pc = "returned"
    /\ op = "reduction_steps"
    /\ Value(heap, in_term) = omega
    /\ Len(result) >= 2
    /\ \A i \in 1..Len(result) : Acyclic(heap, result[i]) /\ ~IsTree(heap, result[i])

---------------------------------------------------------------------------
(* The whole engine: any of the calls above.                               *)

Init == InitSubst \/ InitRule \/ InitNorm \/ InitChurch \/ InitRender \/ InitObj

Next == NextSubst \/ NextRule \/ NextNorm \/ NextRender \/ NextObj

Spec == Init /\ [][Next]_vars

=============================================================================
